---- MODULE Spec2Model ----
(***************************************************************************)
(* Model of cnki_mcp_server.py: the BrowserPool (one shared Playwright     *)
(* browser behind an asyncio.Lock, idle expiry, liveness check, shutdown), *)
(* the three tool operations that lease a page from it, the result-row and *)
(* detail extraction, the pagination collector and the alias resolvers.    *)
(*                                                                         *)
(* Scheduling is asyncio's: a task runs without interruption from one      *)
(* await that really suspends to the next, so each action below is the     *)
(* code between two such awaits.  Every call into Playwright is an await   *)
(* whose outcome (returns / raises) the environment chooses.               *)
(*                                                                         *)
(* Strings are sequences of one-character strings; the Chinese names of    *)
(* the lookup tables are written in pinyin (zhuti = the topic field,       *)
(* xiangguandu = the relevance sort, ...).                                 *)
(***************************************************************************)
EXTENDS Naturals, Integers, Sequences, FiniteSets, TLC

VARIABLES
    \* ---- BrowserPool fields (0 stands for None) ----
    browser,      \* self._browser: id of the browser the pool holds
    playwright,   \* self._playwright: id of the engine the pool holds
    last_used,    \* self._last_used
    lock,         \* self._lock: 0 when free, else the task holding it
    \* ---- the world outside the pool ----
    bstate,       \* per browser id: "unborn", "connected", "disconnected", "closed"
    bengine,      \* per browser id: the engine that launched it
    estate,       \* per engine id: "unborn", "running", "stopped"
    clock,        \* time.time()
    \* ---- the tasks (one tool call or one pool.close() each) ----
    op,           \* which operation the task is running
    pc,           \* where the task is suspended
    now,          \* get_page's local `now`
    ref,          \* the object the task works on: the browser of its page,
                  \* or the engine whose stop() it awaits
    page,         \* the task's page: "none", "open", "closed"
    result,       \* the payload the operation built: "none", "ok", "error"
    url,          \* get_paper_detail's url argument
    calls,        \* how many operations have been called so far
    \* ---- _collect_results ----
    pages,        \* the argument `pages`
    page_num,     \* the loop variable
    all_papers,   \* the accumulated records
    cur,          \* the results page the browser currently renders
    shown,        \* the results pages rendered so far, in order
    cstate,       \* "off", "loop", "returned"
    \* ---- one call of a helper: its argument and what it returned ----
    arg,
    ret

poolVars    == <<browser, playwright, last_used, lock>>
worldVars   == <<bstate, bengine, estate, clock>>
taskVars    == <<op, pc, now, ref, page, result, url, calls>>
collectVars == <<pages, page_num, all_papers, cur, shown, cstate>>
callVars    == <<arg, ret>>
vars == <<browser, playwright, last_used, lock, bstate, bengine, estate, clock,
          op, pc, now, ref, page, result, url, calls,
          pages, page_num, all_papers, cur, shown, cstate, arg, ret>>

(***************************************************************************)
(* Bounds                                                                  *)
(***************************************************************************)
NumTasks    == 2
MaxBrowsers == 2
MaxEngines  == 2
MaxClock    == 601
MaxCalls    == 3

Tasks    == 1..NumTasks
Browsers == 1..MaxBrowsers
Engines  == 1..MaxEngines
\* the clock advances in steps that make both an idle time of exactly the
\* threshold and one just above it happen
TickSteps == {600, 601}

IDLE_TIMEOUT == 600

(***************************************************************************)
(* Strings                                                                 *)
(***************************************************************************)
UpperOf ==
    [c \in {"a", "b", "c", "d", "e", "f", "g", "h", "i", "j", "k", "l", "m", "n", "o", "p", "q", "r", "s", "t", "u", "v", "w", "x", "y", "z"} |->
        CASE c = "a" -> "A" [] c = "b" -> "B" [] c = "c" -> "C" [] c = "d" -> "D"
          [] c = "e" -> "E" [] c = "f" -> "F" [] c = "g" -> "G" [] c = "h" -> "H"
          [] c = "i" -> "I" [] c = "j" -> "J" [] c = "k" -> "K" [] c = "l" -> "L"
          [] c = "m" -> "M" [] c = "n" -> "N" [] c = "o" -> "O" [] c = "p" -> "P"
          [] c = "q" -> "Q" [] c = "r" -> "R" [] c = "s" -> "S" [] c = "t" -> "T"
          [] c = "u" -> "U" [] c = "v" -> "V" [] c = "w" -> "W" [] c = "x" -> "X"
          [] c = "y" -> "Y" [] c = "z" -> "Z"]

\* str.lower() on one character
LowerChar(c) ==
    IF \E l \in DOMAIN UpperOf : UpperOf[l] = c
    THEN CHOOSE l \in DOMAIN UpperOf : UpperOf[l] = c
    ELSE c

\* str.lower()
Lower(s) == [i \in 1..Len(s) |-> LowerChar(s[i])]

\* `sub in s` for strings
Contains(s, sub) ==
    \E i \in 0..(Len(s) - Len(sub)) :
        \A j \in 1..Len(sub) : s[i + j] = sub[j]

EndsWith(s, suf) ==
    /\ Len(suf) <= Len(s)
    /\ \A j \in 1..Len(suf) : s[Len(s) - Len(suf) + j] = suf[j]

(***************************************************************************)
(* URLs handed to get_paper_detail                                         *)
(***************************************************************************)
Cnki == <<"c", "n", "k", "i">>

\* "h://k.cnki.net/a": a page of the portal
UrlPortal == <<"h", ":", "/", "/", "k", ".", "c", "n", "k", "i", ".", "n", "e", "t", "/", "a">>
\* "h://K.CNKI.NET/a": the same, upper case
UrlPortalUpper == <<"h", ":", "/", "/", "K", ".", "C", "N", "K", "I", ".", "N", "E", "T", "/", "a">>
\* "h://a.com/a": another site
UrlOther == <<"h", ":", "/", "/", "a", ".", "c", "o", "m", "/", "a">>
\* "h://a.com/cnki": another site, the word cnki in the path
UrlOtherCnkiPath == <<"h", ":", "/", "/", "a", ".", "c", "o", "m", "/", "c", "n", "k", "i">>

Urls == {<<>>, UrlPortal, UrlPortalUpper, UrlOther, UrlOtherCnkiPath}

\* get_paper_detail's guard: `not url or "cnki" not in url.lower()`
UrlRejected(u) == u = <<>> \/ ~Contains(Lower(u), Cnki)

(***************************************************************************)
(* BrowserPool                                                             *)
(***************************************************************************)
\* the threshold taken for milliseconds: a Session is never found expired
IdleExpiredMillis(t, last) == t - last > IDLE_TIMEOUT * 1000

\* `now - self._last_used > self.IDLE_TIMEOUT`
IdleExpired(t, last) == t - last > IDLE_TIMEOUT

\* what browser.is_connected() can do for a browser in state s
IsConnectedOutcomes(s) ==
    IF s = "connected" THEN {"true", "raises"} ELSE {"false", "raises"}

\* _is_browser_alive, given what is_connected() did
IsBrowserAlive(b, outcome) ==
    IF b = 0 THEN FALSE
    ELSE IF outcome = "raises" THEN FALSE
    ELSE outcome = "true"

Launched == {b \in Browsers : bstate[b] # "unborn"}
Started  == {e \in Engines : estate[e] # "unborn"}

\* the pages of browser b disappear with it
PagesWithout(bs) ==
    [u \in Tasks |-> IF page[u] = "open" /\ ref[u] \in bs THEN "closed" ELSE page[u]]

\* the task leaves its operation with an exception
Raise(t) ==
    /\ pc' = [pc EXCEPT ![t] = "raised"]
    /\ result' = [result EXCEPT ![t] = "none"]
    /\ now' = [now EXCEPT ![t] = 0]

\* _create_browser up to its first await: start the engine if there is none,
\* else launch on the engine the pool holds
CreatePc == IF playwright = 0 THEN "startpw" ELSE "launch"

\* task t enters operation o (a tool, or "close" for pool.close()) with the
\* url u, up to the operation's first call into the pool
Enter(t, o, u) ==
    /\ pc[t] = "idle"
    /\ calls < MaxCalls
    /\ calls' = calls + 1
    /\ op' = [op EXCEPT ![t] = o]
    /\ url' = [url EXCEPT ![t] = u]
    /\ IF o = "detail" /\ UrlRejected(u)
       THEN /\ pc' = [pc EXCEPT ![t] = "done"]
            /\ result' = [result EXCEPT ![t] = "error"]
       ELSE /\ pc' = [pc EXCEPT ![t] = IF o = "close" THEN "c_lock" ELSE "acquire"]
            /\ UNCHANGED result
    /\ UNCHANGED <<poolVars, worldVars, now, ref, page, collectVars, callVars>>

\* a tool is called, or pool.close() is
Call(t) ==
    \/ \E o \in {"search", "match", "close"} : Enter(t, o, <<>>)
    \/ \E u \in Urls : Enter(t, "detail", u)

\* the callers that only need a page, and shutdown
CallPool(t) == \E o \in {"search", "close"} : Enter(t, o, <<>>)

\* shutdown only
CallClose(t) == Enter(t, "close", <<>>)

\* get_page from taking the lock to its first await
GetPageLock(t) ==
    /\ pc[t] = "acquire"
    /\ lock = 0
    /\ IF browser # 0 /\ IdleExpired(clock, last_used)
       THEN \* await self._close_internal()
            /\ now' = [now EXCEPT ![t] = clock]
            /\ lock' = t
            /\ pc' = [pc EXCEPT ![t] = "closing"]
            /\ UNCHANGED <<browser, last_used, ref>>
       ELSE \E outcome \in (IF browser = 0 THEN {"false"}
                            ELSE IsConnectedOutcomes(bstate[browser])) :
              IF IsBrowserAlive(browser, outcome)
              THEN \* reuse: leave the lock and call new_page
                   /\ last_used' = clock
                   /\ ref' = [ref EXCEPT ![t] = browser]
                   /\ pc' = [pc EXCEPT ![t] = "newpage"]
                   /\ UNCHANGED <<browser, lock, now>>
              ELSE \* self._browser = None; await self._create_browser()
                   /\ now' = [now EXCEPT ![t] = clock]
                   /\ browser' = 0
                   /\ lock' = t
                   /\ pc' = [pc EXCEPT ![t] = CreatePc]
                   /\ UNCHANGED <<last_used, ref>>
    /\ UNCHANGED <<playwright, worldVars, op, page, result, url, calls,
                   collectVars, callVars>>

\* _close_internal inside get_page: browser.close() is over (it returned, or
\* raised and the exception was swallowed); then _create_browser begins
CloseInternalDone(t) ==
    /\ pc[t] = "closing"
    /\ bstate' = [bstate EXCEPT ![browser] = "closed"]
    /\ page' = PagesWithout({browser})
    /\ browser' = 0
    /\ pc' = [pc EXCEPT ![t] = CreatePc]
    /\ UNCHANGED <<playwright, last_used, lock, bengine, estate, clock,
                   op, now, ref, result, url, calls, collectVars, callVars>>

\* async_playwright().start() is over
StartDone(t) ==
    /\ pc[t] = "startpw"
    /\ \/ \E e \in Engines :
            /\ e = Cardinality(Started) + 1
            /\ estate' = [estate EXCEPT ![e] = "running"]
            /\ playwright' = e
            /\ pc' = [pc EXCEPT ![t] = "launch"]
            /\ UNCHANGED <<lock, result, now>>
       \/ /\ lock' = 0
          /\ Raise(t)
          /\ UNCHANGED <<estate, playwright>>
    /\ UNCHANGED <<browser, last_used, bstate, bengine, clock,
                   op, ref, page, url, calls, collectVars, callVars>>

\* the engine chromium.launch() was called on: the one started last
LaunchEngine == Cardinality(Started)

\* a launch that raises with the lock kept: the exception does not leave
\* the `async with` block
LaunchDoneKeepsLock(t) ==
    /\ pc[t] = "launch"
    /\ \/ \E b \in Browsers :
            /\ b = Cardinality(Launched) + 1
            /\ estate[LaunchEngine] = "running"
            /\ bstate' = [bstate EXCEPT ![b] = "connected"]
            /\ bengine' = [bengine EXCEPT ![b] = LaunchEngine]
            /\ browser' = b
            /\ last_used' = now[t]
            /\ lock' = 0
            /\ ref' = [ref EXCEPT ![t] = b]
            /\ pc' = [pc EXCEPT ![t] = "newpage"]
            /\ now' = [now EXCEPT ![t] = 0]
            /\ UNCHANGED result
       \/ /\ Raise(t)
          /\ UNCHANGED <<browser, last_used, lock, bstate, bengine, ref>>
    /\ UNCHANGED <<playwright, estate, clock, op, page, url, calls, collectVars, callVars>>

\* chromium.launch() is over
LaunchDone(t) ==
    /\ pc[t] = "launch"
    /\ \/ \E b \in Browsers :
            /\ b = Cardinality(Launched) + 1
            /\ estate[LaunchEngine] = "running"
            /\ bstate' = [bstate EXCEPT ![b] = "connected"]
            /\ bengine' = [bengine EXCEPT ![b] = LaunchEngine]
            /\ browser' = b
            /\ last_used' = now[t]
            /\ lock' = 0
            /\ ref' = [ref EXCEPT ![t] = b]
            /\ pc' = [pc EXCEPT ![t] = "newpage"]
            /\ now' = [now EXCEPT ![t] = 0]
            /\ UNCHANGED result
       \/ /\ lock' = 0
          /\ Raise(t)
          /\ UNCHANGED <<browser, last_used, bstate, bengine, ref>>
    /\ UNCHANGED <<playwright, estate, clock, op, page, url, calls, collectVars, callVars>>

\* browser.new_page() is over
NewPageDone(t) ==
    /\ pc[t] = "newpage"
    /\ \/ /\ bstate[ref[t]] = "connected"
          /\ page' = [page EXCEPT ![t] = "open"]
          /\ pc' = [pc EXCEPT ![t] = "script"]
          /\ UNCHANGED <<result, now>>
       \/ /\ Raise(t)
          /\ UNCHANGED page
    /\ UNCHANGED <<poolVars, worldVars, op, ref, url, calls, collectVars, callVars>>

\* page.add_init_script() is over; get_page returns the page
AddInitScriptDone(t) ==
    /\ pc[t] = "script"
    /\ \/ /\ page[t] = "open"
          /\ pc' = [pc EXCEPT ![t] = "drive"]
          /\ UNCHANGED <<result, now>>
       \/ Raise(t)
    /\ UNCHANGED <<poolVars, worldVars, op, ref, page, url, calls, collectVars, callVars>>

\* the body of the tool's try block is over: it built a payload, or raised
\* and the except clause built the error payload
Drive(t) ==
    /\ pc[t] = "drive"
    /\ \/ /\ page[t] = "open"
          /\ result' = [result EXCEPT ![t] = "ok"]
       \/ result' = [result EXCEPT ![t] = "error"]
    /\ pc' = [pc EXCEPT ![t] = "pageclose"]
    /\ UNCHANGED <<poolVars, worldVars, op, now, ref, page, url, calls, collectVars, callVars>>

\* the finally clause: page.close() is over
PageCloseDone(t) ==
    /\ pc[t] = "pageclose"
    /\ page' = [page EXCEPT ![t] = "closed"]
    /\ \/ /\ pc' = [pc EXCEPT ![t] = "done"]
          /\ UNCHANGED <<result, now>>
       \/ Raise(t)
    /\ UNCHANGED <<poolVars, worldVars, op, ref, url, calls, collectVars, callVars>>

\* close() after its locked region: stop the engine if the pool holds one
AfterCloseLock(t) ==
    IF playwright # 0
    THEN /\ ref' = [ref EXCEPT ![t] = playwright]
         /\ pc' = [pc EXCEPT ![t] = "c_stop"]
         /\ UNCHANGED result
    ELSE /\ pc' = [pc EXCEPT ![t] = "done"]
         /\ result' = [result EXCEPT ![t] = "ok"]
         /\ UNCHANGED ref

\* close() from taking the lock to its first await
CloseLock(t) ==
    /\ pc[t] = "c_lock"
    /\ lock = 0
    /\ IF browser # 0
       THEN /\ lock' = t
            /\ pc' = [pc EXCEPT ![t] = "c_closing"]
            /\ UNCHANGED <<ref, result>>
       ELSE /\ AfterCloseLock(t)
            /\ UNCHANGED lock
    /\ UNCHANGED <<browser, playwright, last_used, worldVars,
                   op, now, page, url, calls, collectVars, callVars>>

\* _close_internal inside close(): browser.close() is over
CloseBrowserDone(t) ==
    /\ pc[t] = "c_closing"
    /\ bstate' = [bstate EXCEPT ![browser] = "closed"]
    /\ page' = PagesWithout({browser})
    /\ browser' = 0
    /\ lock' = 0
    /\ AfterCloseLock(t)
    /\ UNCHANGED <<playwright, last_used, bengine, estate, clock,
                   op, now, url, calls, collectVars, callVars>>

\* stop() without the try/except around it: stopping an engine that is
\* already stopped raises out of close()
StopDoneUnguarded(t) ==
    /\ pc[t] = "c_stop"
    /\ IF estate[ref[t]] = "stopped"
       THEN /\ Raise(t)
            /\ UNCHANGED <<playwright, bstate, estate, page>>
       ELSE /\ bstate' = [b \in Browsers |->
                            IF bengine[b] = ref[t] /\ bstate[b] = "connected"
                            THEN "closed" ELSE bstate[b]]
            /\ page' = PagesWithout({b \in Browsers : bengine[b] = ref[t]})
            /\ estate' = [estate EXCEPT ![ref[t]] = "stopped"]
            /\ playwright' = 0
            /\ pc' = [pc EXCEPT ![t] = "done"]
            /\ result' = [result EXCEPT ![t] = "ok"]
            /\ UNCHANGED now
    /\ UNCHANGED <<browser, last_used, lock, bengine, clock,
                   op, ref, url, calls, collectVars, callVars>>

\* playwright.stop() is over (it returned, or raised and was swallowed):
\* the engine is gone and so are the browsers it launched
StopDone(t) ==
    /\ pc[t] = "c_stop"
    /\ LET killed == {b \in Browsers : bengine[b] = ref[t] /\ bstate[b] = "connected"}
       IN /\ bstate' = [b \in Browsers |-> IF b \in killed THEN "closed" ELSE bstate[b]]
          /\ page' = PagesWithout(killed)
    /\ estate' = [estate EXCEPT ![ref[t]] = "stopped"]
    /\ playwright' = 0
    /\ pc' = [pc EXCEPT ![t] = "done"]
    /\ result' = [result EXCEPT ![t] = "ok"]
    /\ UNCHANGED <<browser, last_used, lock, bengine, clock,
                   op, now, ref, url, calls, collectVars, callVars>>

\* the operation has returned or raised; the task is free again
Return(t) ==
    /\ pc[t] \in {"done", "raised"}
    /\ pc' = [pc EXCEPT ![t] = "idle"]
    /\ op' = [op EXCEPT ![t] = "none"]
    /\ now' = [now EXCEPT ![t] = 0]
    /\ ref' = [ref EXCEPT ![t] = 0]
    /\ page' = [page EXCEPT ![t] = "none"]
    /\ result' = [result EXCEPT ![t] = "none"]
    /\ url' = [url EXCEPT ![t] = <<>>]
    /\ UNCHANGED <<poolVars, worldVars, calls, collectVars, callVars>>

\* time passes
Tick ==
    /\ \E d \in TickSteps :
         /\ clock + d <= MaxClock
         /\ clock' = clock + d
    /\ UNCHANGED <<poolVars, bstate, bengine, estate, taskVars, collectVars, callVars>>

\* a browser process dies
Crash ==
    /\ \E b \in Browsers :
         /\ bstate[b] = "connected"
         /\ bstate' = [bstate EXCEPT ![b] = "disconnected"]
         /\ page' = PagesWithout({b})
    /\ UNCHANGED <<poolVars, bengine, estate, clock,
                   op, pc, now, ref, result, url, calls, collectVars, callVars>>

CollectOff ==
    /\ pages = 0 /\ page_num = 0 /\ all_papers = <<>>
    /\ cur = <<>> /\ shown = <<>> /\ cstate = "off"

CallOff == arg = <<>> /\ ret = <<>>

PoolFresh ==
    /\ browser = 0 /\ playwright = 0 /\ last_used = 0 /\ lock = 0
    /\ bstate = [b \in Browsers |-> "unborn"]
    /\ bengine = [b \in Browsers |-> 0]
    /\ estate = [e \in Engines |-> "unborn"]
    /\ clock = 0

TasksIdle ==
    /\ op = [t \in Tasks |-> "none"]
    /\ pc = [t \in Tasks |-> "idle"]
    /\ now = [t \in Tasks |-> 0]
    /\ ref = [t \in Tasks |-> 0]
    /\ page = [t \in Tasks |-> "none"]
    /\ result = [t \in Tasks |-> "none"]
    /\ url = [t \in Tasks |-> <<>>]
    /\ calls = 0

Init == PoolFresh /\ TasksIdle /\ CollectOff /\ CallOff

Next ==
    \/ \E t \in Tasks : Call(t)
    \/ \E t \in Tasks : GetPageLock(t)
    \/ \E t \in Tasks : CloseInternalDone(t)
    \/ \E t \in Tasks : StartDone(t)
    \/ \E t \in Tasks : LaunchDone(t)
    \/ \E t \in Tasks : NewPageDone(t)
    \/ \E t \in Tasks : AddInitScriptDone(t)
    \/ \E t \in Tasks : Drive(t)
    \/ \E t \in Tasks : PageCloseDone(t)
    \/ \E t \in Tasks : CloseLock(t)
    \/ \E t \in Tasks : CloseBrowserDone(t)
    \/ \E t \in Tasks : StopDone(t)
    \/ \E t \in Tasks : Return(t)
    \/ Tick
    \/ Crash

Spec == Init /\ [][Next]_vars

(***************************************************************************)
(* The pool under callers that differ only in what they do with the page:  *)
(* one kind of tool call, and shutdown.                                    *)
(***************************************************************************)
NextPool ==
    \/ \E t \in Tasks : CallPool(t)
    \/ \E t \in Tasks : GetPageLock(t)
    \/ \E t \in Tasks : CloseInternalDone(t)
    \/ \E t \in Tasks : StartDone(t)
    \/ \E t \in Tasks : LaunchDone(t)
    \/ \E t \in Tasks : NewPageDone(t)
    \/ \E t \in Tasks : AddInitScriptDone(t)
    \/ \E t \in Tasks : Drive(t)
    \/ \E t \in Tasks : PageCloseDone(t)
    \/ \E t \in Tasks : CloseLock(t)
    \/ \E t \in Tasks : CloseBrowserDone(t)
    \/ \E t \in Tasks : StopDone(t)
    \/ \E t \in Tasks : Return(t)
    \/ Tick
    \/ Crash

SpecPool == Init /\ [][NextPool]_vars

(***************************************************************************)
(* Shutdown alone: close() called, possibly by several tasks at once, on   *)
(* each state get_page can have left the pool in.                          *)
(***************************************************************************)
\* the pool states a shutdown can find: nothing created yet; an engine but no
\* browser (the launch failed); a browser on its engine, connected or dead;
\* a browser whose engine an earlier shutdown stopped under it
PoolStates ==
    { [b |-> 0, p |-> 0, bs |-> "unborn", es |-> "unborn"],
      [b |-> 0, p |-> 1, bs |-> "unborn", es |-> "running"],
      [b |-> 1, p |-> 1, bs |-> "connected", es |-> "running"],
      [b |-> 1, p |-> 1, bs |-> "disconnected", es |-> "running"],
      [b |-> 1, p |-> 0, bs |-> "closed", es |-> "stopped"] }

InitShutdown ==
    /\ TasksIdle /\ CollectOff /\ CallOff
    /\ lock = 0 /\ clock = 0 /\ last_used = 0
    /\ \E s \in PoolStates :
         /\ browser = s.b
         /\ playwright = s.p
         /\ bstate = [b \in Browsers |-> IF b = 1 THEN s.bs ELSE "unborn"]
         /\ bengine = [b \in Browsers |-> IF b = 1 /\ s.bs # "unborn" THEN 1 ELSE 0]
         /\ estate = [e \in Engines |-> IF e = 1 THEN s.es ELSE "unborn"]

NextShutdown ==
    \/ \E t \in Tasks : CallClose(t)
    \/ \E t \in Tasks : CloseLock(t)
    \/ \E t \in Tasks : CloseBrowserDone(t)
    \/ \E t \in Tasks : StopDone(t)
    \/ \E t \in Tasks : Return(t)
    \/ Crash

SpecShutdown == InitShutdown /\ [][NextShutdown]_vars

(***************************************************************************)
(* Claims about the pool and the tools                                     *)
(***************************************************************************)
Tools == {"search", "detail", "match"}

\* the browsers that were launched, not closed, and whose process still runs
LiveSessions == {b \in Browsers : bstate[b] = "connected"}

\* C1: under every interleaving of get_page calls, including ones that find
\* the Session expired or not alive, at most one launched and not yet closed
\* browser exists at a time.
C1_AtMostOneLiveSession == Cardinality(LiveSessions) <= 1

\* task t is handed the browser its page will be created in
Granted(t) == op[t] \in Tools /\ ref[t] = 0 /\ ref'[t] # 0

\* C2: when get_page finds a Session idle for more than IDLE_TIMEOUT it
\* grants no page of it: it first closes that browser, still inside the
\* locked region, and the browser a page is granted from is either one
\* launched by this very call or one that was not idle beyond the threshold.
C2_ExpiredSessionReplaced ==
    [][\A t \in Tasks :
         /\ (/\ pc[t] = "acquire" /\ pc'[t] # "acquire"
             /\ browser # 0 /\ clock - last_used > IDLE_TIMEOUT)
            => (pc'[t] = "closing" /\ ref'[t] = 0 /\ lock' = t)
         /\ (pc[t] = "closing" /\ pc'[t] # "closing")
            => (/\ bstate'[browser] = "closed" /\ browser' = 0
                /\ ref'[t] = 0 /\ lock' = t)
         /\ Granted(t)
            => \/ bstate[ref'[t]] = "unborn"
               \/ ref'[t] = browser /\ clock - last_used <= IDLE_TIMEOUT
      ]_vars

\* C2 witness: a get_page that found a connected Session idle for more than
\* the threshold and is closing it
C2_Witness ==
    \E t \in Tasks :
        /\ pc[t] = "closing"
        /\ bstate[browser] = "connected"
        /\ now[t] - last_used > IDLE_TIMEOUT

\* C3: when a tool call ends, by returning or by raising, no page created
\* for it is still open.
C3_NoLeaseOutlivesOperation ==
    \A t \in Tasks : pc[t] \in {"done", "raised"} => page[t] # "open"

\* C4: a tool call never ends with an exception; it ends with a payload.
C4_NoUncaughtException ==
    \A t \in Tasks : op[t] \in Tools => pc[t] # "raised"

\* C5: shutdown never raises, stops the engine only after the Session is
\* gone from the pool, and once a shutdown has returned the pool holds no
\* Session and no engine, and no browser or engine is left running; this
\* holds again for a shutdown that follows another one.
C5_ShutdownIdempotent ==
    \A t \in Tasks :
        /\ pc[t] # "raised"
        /\ pc[t] = "c_stop" => browser = 0
        /\ pc[t] = "done" =>
              /\ result[t] = "ok"
              /\ browser = 0 /\ playwright = 0
              /\ \A b \in Browsers : bstate[b] \in {"unborn", "closed"}
              /\ \A e \in Engines : estate[e] \in {"unborn", "stopped"}

\* C5 witness: a second shutdown has returned after a first one that had a
\* browser to close and an engine to stop
C5_Witness ==
    \E t, u \in Tasks :
        /\ t # u
        /\ pc[t] = "done" /\ pc[u] = "done"
        /\ bstate[1] = "closed" /\ estate[1] = "stopped"

\* the host of a url: what stands between "//" and the next "/"
HostStart(u) ==
    IF \E i \in 1..(Len(u) - 1) : u[i] = "/" /\ u[i + 1] = "/"
    THEN 2 + CHOOSE i \in 1..(Len(u) - 1) :
                 /\ u[i] = "/" /\ u[i + 1] = "/"
                 /\ \A j \in 1..(i - 1) : ~(u[j] = "/" /\ u[j + 1] = "/")
    ELSE 1

HostEnd(u) ==
    IF \E i \in HostStart(u)..Len(u) : u[i] = "/"
    THEN (CHOOSE i \in HostStart(u)..Len(u) :
             /\ u[i] = "/"
             /\ \A j \in HostStart(u)..(i - 1) : u[j] # "/") - 1
    ELSE Len(u)

Host(u) == Lower(SubSeq(u, HostStart(u), HostEnd(u)))

\* the url is one of the portal: its host is cnki.net or a subdomain of it
InPortalDomain(u) ==
    \/ Host(u) = <<"c", "n", "k", "i", ".", "n", "e", "t">>
    \/ EndsWith(Host(u), <<".", "c", "n", "k", "i", ".", "n", "e", "t">>)

\* C9: get_paper_detail with a url outside the portal's domain (the empty
\* url included) ends at once with the error payload: it never waits for the
\* pool, never holds a browser or a page.
C9_ForeignUrlRejected ==
    \A t \in Tasks :
        (op[t] = "detail" /\ ~InPortalDomain(url[t]))
        => (pc[t] = "done" /\ result[t] = "error" /\ ref[t] = 0 /\ page[t] = "none")

(***************************************************************************)
(* What the page answers to a lookup.  A text is a string; two marks stand *)
(* for a lookup that raised and for Python's None.                         *)
(***************************************************************************)
Raises    == <<"<raises>">>
NoneValue == <<"<None>">>

IsSpace(c) == c = " "

\* str.strip()
Strip(s) ==
    IF \A i \in 1..Len(s) : IsSpace(s[i]) THEN <<>>
    ELSE LET first == CHOOSE i \in 1..Len(s) :
                        ~IsSpace(s[i]) /\ \A j \in 1..(i - 1) : IsSpace(s[j])
             last  == CHOOSE i \in 1..Len(s) :
                        ~IsSpace(s[i]) /\ \A j \in (i + 1)..Len(s) : IsSpace(s[j])
         IN SubSeq(s, first, last)

(***************************************************************************)
(* _parse_paper_row                                                        *)
(***************************************************************************)
\* A row of the results table, as the lookups of _parse_paper_row see it:
\*   a_fz14   what query_selector('a.fz14') does: "found", "none", "raises"
\*   text     the link's inner_text(), or Raises
\*   href     the link's href attribute, NoneValue if it has none, or Raises
\*   authors  ok: whether query_selector_all('td.author a') returns;
\*            names: the inner_text() of each element, or Raises
\*   source, date, quote, download
\*            el: what query_selector does; text: inner_text(), or Raises
TitleTexts  == {<<"a">>, <<"b", " ">>, <<" ">>, Raises}
HrefValues  == {<<"u">>, NoneValue, Raises}
AuthorLists == { [ok |-> TRUE,  names |-> <<>>],
                 [ok |-> TRUE,  names |-> << <<"x">>, <<" ">>, <<" ", "y">> >>],
                 [ok |-> TRUE,  names |-> << <<"x">>, Raises >>],
                 [ok |-> FALSE, names |-> <<>>] }
CellLookups == { [el |-> "found",  text |-> <<"v", " ">>],
                 [el |-> "found",  text |-> Raises],
                 [el |-> "none",   text |-> <<>>],
                 [el |-> "raises", text |-> <<>>] }

\* the inner_text().strip() of a cell `if el else default`, inside its own
\* try block whose except clause also yields the default
CellText(c, default) ==
    IF c.el = "raises" THEN default
    ELSE IF c.el = "none" THEN default
    ELSE IF c.text = Raises THEN default
    ELSE Strip(c.text)

\* the first try block: title and url are set together
TitleAndUrl(row) ==
    IF row.a_fz14 = "raises" THEN [title |-> <<>>, url |-> <<>>]
    ELSE IF row.a_fz14 = "none" THEN [title |-> <<>>, url |-> <<>>]
    ELSE IF row.text = Raises \/ row.href = Raises THEN [title |-> <<>>, url |-> <<>>]
    ELSE [title |-> Strip(row.text), url |-> row.href]

\* the second try block: the non-blank author names, or [] if anything raised
AuthorNames(a) ==
    IF ~a.ok THEN <<>>
    ELSE IF \E i \in 1..Len(a.names) : a.names[i] = Raises THEN <<>>
    ELSE LET keep == {i \in 1..Len(a.names) : Strip(a.names[i]) # <<>>}
             nth(k) == CHOOSE i \in keep : Cardinality({j \in keep : j < i}) = k - 1
         IN [k \in 1..Cardinality(keep) |-> Strip(a.names[nth(k)])]

ParsePaperRow(row) ==
    [ title          |-> TitleAndUrl(row).title,
      url            |-> TitleAndUrl(row).url,
      authors        |-> AuthorNames(row.authors),
      source         |-> CellText(row.source, <<>>),
      date           |-> CellText(row.date, <<>>),
      cited_count    |-> CellText(row.quote, <<"0">>),
      download_count |-> CellText(row.download, <<"0">>) ]

RowEnvs ==
    [ a_fz14 : {"found", "none", "raises"}, text : TitleTexts, href : HrefValues,
      authors : AuthorLists, source : CellLookups, date : CellLookups,
      quote : CellLookups, download : CellLookups ]

\* _parse_paper_row is called on a row and returns
ParseRowCall ==
    /\ Len(arg) = 1 /\ ret = <<>>
    /\ ret' = <<ParsePaperRow(arg[1])>>
    /\ UNCHANGED <<poolVars, worldVars, taskVars, collectVars, arg>>

InitRow ==
    /\ PoolFresh /\ TasksIdle /\ CollectOff
    /\ \E row \in RowEnvs : arg = <<row>>
    /\ ret = <<>>

SpecRow == InitRow /\ [][ParseRowCall]_vars

\* what each field's own lookup offers, whatever the other lookups do
TitleOffered(row) == row.a_fz14 = "found" /\ row.text # Raises
UrlOffered(row)   == row.a_fz14 = "found" /\ row.href \notin {Raises, NoneValue}
CellOffered(c)    == c.el = "found" /\ c.text # Raises

\* C7: each field of the record depends on its own lookup only: the real
\* value when that lookup offers one, the field's default otherwise.
C7_RowFieldsIsolated ==
    Len(ret) = 1 =>
      LET row == arg[1]
          rec == ret[1]
      IN /\ rec.title = (IF TitleOffered(row) THEN Strip(row.text) ELSE <<>>)
         /\ rec.url = (IF UrlOffered(row) THEN row.href ELSE <<>>)
         /\ rec.authors = AuthorNames(row.authors)
         /\ rec.source = (IF CellOffered(row.source) THEN Strip(row.source.text) ELSE <<>>)
         /\ rec.date = (IF CellOffered(row.date) THEN Strip(row.date.text) ELSE <<>>)
         /\ rec.cited_count =
              (IF CellOffered(row.quote) THEN Strip(row.quote.text) ELSE <<"0">>)
         /\ rec.download_count =
              (IF CellOffered(row.download) THEN Strip(row.download.text) ELSE <<"0">>)

(***************************************************************************)
(* _get_paper_detail and the tool around it                                *)
(***************************************************************************)
MaxFaults == 2

\* the selectors _get_paper_detail looks up, in the order of the code
DetailSelectors ==
    << "wx_tit_h1", "h1", "wx_tit_h2", "author", "orgn", "ChDivSummary",
       "EnChDivSummary", "keywords", "top_tip_a", "top_tip_span", "doi",
       "refs", "cited_em", "DownLoadParts", "download_em", "fund_li",
       "funds", "classification" >>

SelectorSet == {DetailSelectors[i] : i \in 1..Len(DetailSelectors)}

\* A detail page, as the lookups see it: goto says whether page.goto(url)
\* returns; look says for each selector whether its lookup yields a value
\* ("val"), finds nothing ("absent") or raises ("raises").  At most MaxFaults
\* lookups do not yield a value.
RECURSIVE FaultySets(_)
FaultySets(n) ==
    IF n = 0 THEN {{}}
    ELSE FaultySets(n - 1) \cup
         { S \cup {x} : S \in FaultySets(n - 1), x \in SelectorSet }

DetailLooks ==
    UNION { { [x \in SelectorSet |-> IF x \in S THEN f[x] ELSE "val"] :
                f \in [S -> {"absent", "raises"}] } :
            S \in FaultySets(MaxFaults) }

DetailEnvs == [goto : {"ok", "raises"}, look : DetailLooks]

\* the text or texts a selector yields when it is there
RealValue(sel) == <<sel>>

\* text(selector) / texts(selector) / the keyword list: the value, or the
\* empty default when nothing is found (a raise is dealt with in Evaluated)
Found(env, sel) == IF env.look[sel] = "val" THEN RealValue(sel) ELSE <<>>

\* `await text(a) or await text(b)`
FoundOr(env, a, b) == IF Found(env, a) # <<>> THEN Found(env, a) ELSE Found(env, b)

\* the second selector of an `or` is looked up only if the first gave nothing
Evaluated(env) ==
    SelectorSet \ { b \in SelectorSet :
        \E pair \in { <<"wx_tit_h1", "h1">>, <<"refs", "cited_em">>,
                      <<"DownLoadParts", "download_em">>, <<"fund_li", "funds">> } :
            pair[2] = b /\ env.look[pair[1]] = "val" }

\* text() and texts() have no try block: a raising lookup raises out of
\* _get_paper_detail, and so does page.goto
DetailRaises(env) ==
    \/ env.goto = "raises"
    \/ \E sel \in Evaluated(env) : env.look[sel] = "raises"

DetailRecord(env) ==
    [ title          |-> FoundOr(env, "wx_tit_h1", "h1"),
      title_en       |-> Found(env, "wx_tit_h2"),
      authors        |-> Found(env, "author"),
      institutions   |-> Found(env, "orgn"),
      abstract       |-> Found(env, "ChDivSummary"),
      abstract_en    |-> Found(env, "EnChDivSummary"),
      keywords       |-> Found(env, "keywords"),
      source         |-> Found(env, "top_tip_a"),
      info_text      |-> Found(env, "top_tip_span"),
      doi            |-> Found(env, "doi"),
      cited_count    |-> FoundOr(env, "refs", "cited_em"),
      download_count |-> FoundOr(env, "DownLoadParts", "download_em"),
      fund           |-> FoundOr(env, "fund_li", "funds"),
      classification |-> Found(env, "classification") ]

\* get_paper_detail once it holds a page: the record, or the error payload
\* built by its except clause
GetPaperDetail(env) ==
    IF DetailRaises(env)
    THEN [isError |-> TRUE]
    ELSE [isError |-> FALSE, paper |-> DetailRecord(env)]

\* get_paper_detail runs on a page and builds its payload
DetailCall ==
    /\ Len(arg) = 1 /\ ret = <<>>
    /\ ret' = <<GetPaperDetail(arg[1])>>
    /\ UNCHANGED <<poolVars, worldVars, taskVars, collectVars, arg>>

InitDetail ==
    /\ PoolFresh /\ TasksIdle /\ CollectOff
    /\ \E env \in DetailEnvs : arg = <<env>>
    /\ ret = <<>>

SpecDetail == InitDetail /\ [][DetailCall]_vars

\* the value a field has when its lookups are taken one by one, a raising
\* lookup counting as an absent one
Tolerant(env) ==
    [env EXCEPT !.look = [x \in SelectorSet |->
                            IF env.look[x] = "raises" THEN "absent" ELSE env.look[x]]]

\* C8: once the page is loaded, a lookup that finds nothing or raises leaves
\* its field at the default and every other field as extracted, and
\* get_paper_detail returns the record, not an error payload.
C8_DetailFieldsIsolated ==
    (Len(ret) = 1 /\ arg[1].goto = "ok") =>
        /\ ~ret[1].isError
        /\ ret[1].paper = DetailRecord(Tolerant(arg[1]))

(***************************************************************************)
(* The lookup tables and the alias resolvers.  A table is a set of         *)
(* <<key, value>> pairs.  A Chinese name is written as one caseless,       *)
(* non-blank symbol carrying its pinyin: zhuti is the topic field,         *)
(* xiangguandu the relevance sort.                                         *)
(***************************************************************************)
MaxPad == 1

Keys(table) == {p[1] : p \in table}
Get(table, k) == (CHOOSE p \in table : p[1] = k)[2]

Doi == <<"D", "O", "I">>

SEARCH_TYPES ==
    { << <<"zhuti">>, "SU" >>,
      << <<"pianguanzhai">>, "TKA" >>,
      << <<"guanjianci">>, "KY" >>,
      << <<"pianming">>, "TI" >>,
      << <<"quanwen">>, "FT" >>,
      << <<"zuozhe">>, "AU" >>,
      << <<"diyizuozhe">>, "FI" >>,
      << <<"tongxunzuozhe">>, "RP" >>,
      << <<"zuozhedanwei">>, "AF" >>,
      << <<"jijin">>, "FU" >>,
      << <<"zhaiyao">>, "AB" >>,
      << <<"cankaowenxian">>, "RF" >>,
      << <<"fenleihao">>, "CLC" >>,
      << <<"wenxianlaiyuan">>, "LY" >>,
      << Doi, "DOI" >> }

SEARCH_TYPE_ALIASES ==
    { << <<"s", "u", "b", "j", "e", "c", "t">>,
         <<"zhuti">> >>,
      << <<"t", "h", "e", "m", "e">>,
         <<"zhuti">> >>,
      << <<"k", "e", "y", "w", "o", "r", "d">>,
         <<"guanjianci">> >>,
      << <<"k", "e", "y", "w", "o", "r", "d", "s">>,
         <<"guanjianci">> >>,
      << <<"t", "i", "t", "l", "e">>,
         <<"pianming">> >>,
      << <<"a", "u", "t", "h", "o", "r">>,
         <<"zuozhe">> >>,
      << <<"f", "i", "r", "s", "t", "_", "a", "u", "t", "h", "o", "r">>,
         <<"diyizuozhe">> >>,
      << <<"c", "o", "r", "r", "e", "s", "p", "o", "n", "d", "i", "n", "g", "_", "a", "u", "t", "h", "o", "r">>,
         <<"tongxunzuozhe">> >>,
      << <<"a", "f", "f", "i", "l", "i", "a", "t", "i", "o", "n">>,
         <<"zuozhedanwei">> >>,
      << <<"i", "n", "s", "t", "i", "t", "u", "t", "i", "o", "n">>,
         <<"zuozhedanwei">> >>,
      << <<"f", "u", "n", "d">>,
         <<"jijin">> >>,
      << <<"a", "b", "s", "t", "r", "a", "c", "t">>,
         <<"zhaiyao">> >>,
      << <<"f", "u", "l", "l", "t", "e", "x", "t">>,
         <<"quanwen">> >>,
      << <<"r", "e", "f", "e", "r", "e", "n", "c", "e">>,
         <<"cankaowenxian">> >>,
      << <<"s", "o", "u", "r", "c", "e">>,
         <<"wenxianlaiyuan">> >>,
      << <<"d", "o", "i">>, Doi >> }

SORT_TYPES ==
    { << <<"xiangguandu">>, "FFD" >>,
      << <<"fabiaoshijian">>, "PT" >>,
      << <<"beiyin">>, "CF" >>,
      << <<"xiazai">>, "DFR" >>,
      << <<"zonghe">>, "ZH" >> }

SORT_TYPE_ALIASES ==
    { << <<"r", "e", "l", "e", "v", "a", "n", "c", "e">>,
         <<"xiangguandu">> >>,
      << <<"d", "a", "t", "e">>,
         <<"fabiaoshijian">> >>,
      << <<"p", "u", "b", "l", "i", "s", "h", "_", "t", "i", "m", "e">>,
         <<"fabiaoshijian">> >>,
      << <<"t", "i", "m", "e">>,
         <<"fabiaoshijian">> >>,
      << <<"c", "i", "t", "e", "d">>,
         <<"beiyin">> >>,
      << <<"c", "i", "t", "a", "t", "i", "o", "n">>,
         <<"beiyin">> >>,
      << <<"c", "i", "t", "a", "t", "i", "o", "n", "s">>,
         <<"beiyin">> >>,
      << <<"d", "o", "w", "n", "l", "o", "a", "d">>,
         <<"xiazai">> >>,
      << <<"d", "o", "w", "n", "l", "o", "a", "d", "s">>,
         <<"xiazai">> >>,
      << <<"c", "o", "m", "p", "o", "s", "i", "t", "e">>,
         <<"zonghe">> >>,
      << <<"g", "e", "n", "e", "r", "a", "l">>,
         <<"zonghe">> >> }

\* resolve_search_type
resolve_search_type(search_type) ==
    IF search_type = <<>> THEN <<"zhuti">>
    ELSE LET k == Strip(Lower(search_type))
         IN IF k \in Keys(SEARCH_TYPE_ALIASES) THEN Get(SEARCH_TYPE_ALIASES, k)
            ELSE IF search_type \in Keys(SEARCH_TYPES) THEN search_type
            ELSE <<"zhuti">>

\* resolve_sort_type
resolve_sort_type(sort_type) ==
    IF sort_type = <<>> THEN <<"xiangguandu">>
    ELSE LET k == Strip(Lower(sort_type))
         IN IF k \in Keys(SORT_TYPE_ALIASES) THEN Get(SORT_TYPE_ALIASES, k)
            ELSE IF sort_type \in Keys(SORT_TYPES) THEN sort_type
            ELSE <<"xiangguandu">>

\* the names a caller may pass: every alias and canonical name as written, in
\* upper case and capitalised, an unknown word, nothing at all; each with up
\* to MaxPad blanks before and after
Upper(w) == [i \in 1..Len(w) |->
               IF w[i] \in DOMAIN UpperOf THEN UpperOf[w[i]] ELSE w[i]]
Capitalised(w) == [i \in 1..Len(w) |-> IF i = 1 THEN Upper(w)[1] ELSE w[i]]
Blanks(n) == [i \in 1..n |-> " "]
Spellings(words) ==
    { Blanks(l) \o v \o Blanks(r) :
        l \in 0..MaxPad, r \in 0..MaxPad,
        v \in UNION { {w, Upper(w), Capitalised(w)} : w \in words \cup {<<>>, <<"x", "y">>} } }

ResolveArgs ==
    { [fn |-> "search_type", s |-> x] :
        x \in Spellings(Keys(SEARCH_TYPE_ALIASES) \cup Keys(SEARCH_TYPES)) }
    \cup
    { [fn |-> "sort_type", s |-> x] :
        x \in Spellings(Keys(SORT_TYPE_ALIASES) \cup Keys(SORT_TYPES)) }

\* a resolver is called and returns
ResolveCall ==
    /\ Len(arg) = 1 /\ ret = <<>>
    /\ ret' = << IF arg[1].fn = "search_type"
                 THEN resolve_search_type(arg[1].s)
                 ELSE resolve_sort_type(arg[1].s) >>
    /\ UNCHANGED <<poolVars, worldVars, taskVars, collectVars, arg>>

InitResolve ==
    /\ PoolFresh /\ TasksIdle /\ CollectOff
    /\ \E a \in ResolveArgs : arg = <<a>>
    /\ ret = <<>>

SpecResolve == InitResolve /\ [][ResolveCall]_vars

\* what a trimmed, case-folded name n stands for: an alias for its target,
\* a canonical name (compared case-folded) for itself, anything else for
\* the default
Canonical(aliases, names, default, n) ==
    IF n \in Keys(aliases) THEN Get(aliases, n)
    ELSE IF \E c \in Keys(names) : Lower(c) = n
         THEN CHOOSE c \in Keys(names) : Lower(c) = n
         ELSE default

\* C10: a resolver returns what the trimmed, case-folded input stands for,
\* which is always a canonical name.
C10_ResolveNormalises ==
    Len(ret) = 1 =>
      LET n == Strip(Lower(arg[1].s))
      IN IF arg[1].fn = "search_type"
         THEN /\ ret[1] = Canonical(SEARCH_TYPE_ALIASES, SEARCH_TYPES, <<"zhuti">>, n)
              /\ ret[1] \in Keys(SEARCH_TYPES)
         ELSE /\ ret[1] = Canonical(SORT_TYPE_ALIASES, SORT_TYPES, <<"xiangguandu">>, n)
              /\ ret[1] \in Keys(SORT_TYPES)

(***************************************************************************)
(* _collect_results                                                        *)
(***************************************************************************)
MaxPages == 2
MaxRows  == 3

\* a row whose every lookup succeeds, with the given title text
FullRow(t) ==
    [ a_fz14 |-> "found", text |-> t, href |-> <<"u">>,
      authors |-> [ok |-> TRUE, names |-> << <<"x">> >>],
      source |-> [el |-> "found", text |-> <<"v", " ">>],
      date |-> [el |-> "found", text |-> <<"v", " ">>],
      quote |-> [el |-> "found", text |-> <<"v", " ">>],
      download |-> [el |-> "found", text |-> <<"v", " ">>] ]

\* the rows a results page is made of: two with a title, one whose title
\* is blank
PageRows == {FullRow(<<"a">>), FullRow(<<"b", " ">>), FullRow(<<" ">>)}

\* A results page as the collector sees it:
\*   rows  the rows of the table, in rendered order
\*   q     "ok": the first query_selector_all returns them; "late": it
\*         returns none and they are there after wait_for_selector;
\*         "raises": query_selector_all raises
\*   next  the #PageNext control: "enabled", "disabled", "absent", or
\*         "raises" when looking it up, asking is_enabled or clicking raises
\* with at most n rows
ResultPages(n) ==
    [ rows : UNION { [1..k -> PageRows] : k \in 0..n },
      q : {"ok", "late", "raises"},
      next : {"enabled", "disabled", "absent", "raises"} ]

RECURSIVE RowsShown(_)
RowsShown(sh) == IF sh = <<>> THEN 0 ELSE Len(Head(sh).rows) + RowsShown(Tail(sh))

HasTitle(paper) == paper.title # <<>>

\* the body of the loop's first try block: the records page p adds when it
\* is read as page n; any exception leaves the page without records
PageRecords(p, n) ==
    IF p.q = "raises" THEN <<>>
    ELSE LET first == IF p.q = "ok" THEN p.rows ELSE <<>>
         IN IF first = <<>> /\ p.rows = <<>>
            THEN <<>>   \* wait_for_selector times out
            ELSE SelectSeq([i \in 1..Len(p.rows) |->
                              [page |-> n] @@ ParsePaperRow(p.rows[i])],
                           HasTitle)

\* the loop with `continue` where the code has `break`: the page that could
\* not be left is read again under the next page number
CollectPageNoBreak ==
    /\ cstate = "loop"
    /\ all_papers' = all_papers \o PageRecords(cur, page_num)
    /\ IF page_num < pages
       THEN /\ page_num' = page_num + 1
            /\ cstate' = "loop"
            /\ IF cur.next = "enabled"
               THEN \E np \in ResultPages(MaxRows - RowsShown(shown)) :
                      /\ cur' = np
                      /\ shown' = Append(shown, np)
               ELSE UNCHANGED <<cur, shown>>
       ELSE /\ cstate' = "returned"
            /\ UNCHANGED <<page_num, cur, shown>>
    /\ UNCHANGED <<poolVars, worldVars, taskVars, callVars, pages>>

\* one round of the loop: read the rendered page, then either click
\* #PageNext, which renders another page, or leave the loop
CollectPage ==
    /\ cstate = "loop"
    /\ all_papers' = all_papers \o PageRecords(cur, page_num)
    /\ IF page_num < pages
       THEN IF cur.next = "enabled"
            THEN \E np \in ResultPages(MaxRows - RowsShown(shown)) :
                   /\ cur' = np
                   /\ shown' = Append(shown, np)
                   /\ page_num' = page_num + 1
                   /\ cstate' = "loop"
            ELSE /\ cstate' = "returned"
                 /\ UNCHANGED <<page_num, cur, shown>>
       ELSE /\ cstate' = "returned"
            /\ UNCHANGED <<page_num, cur, shown>>
    /\ UNCHANGED <<poolVars, worldVars, taskVars, callVars, pages>>

InitCollect ==
    /\ PoolFresh /\ TasksIdle /\ CallOff
    /\ pages \in 1..MaxPages
    /\ page_num = 1
    /\ all_papers = <<>>
    /\ cur \in ResultPages(MaxRows)
    /\ shown = <<cur>>
    /\ cstate = "loop"

SpecCollect == InitCollect /\ [][CollectPage]_vars

\* the records of the first k of the pages sh, page by page
RECURSIVE RecordsOfPages(_, _)
RecordsOfPages(sh, k) ==
    IF k = 0 THEN <<>>
    ELSE RecordsOfPages(sh, k - 1) \o PageRecords(sh[k], k)

MaxTitleLen   == 2
MaxCandidates == 2

\* the titles: the strings over two letters, the empty one included
Titles(n) == UNION { [1..k -> {"a", "b"}] : k \in 0..n }

\* `sum(c in t for c in title)`
CommonChars(title, t) ==
    Cardinality({i \in 1..Len(title) : \E j \in 1..Len(t) : t[j] = title[i]})

\* a later candidate that only ties replaces the best one
ImprovesOrTies(common_chars, max_similar) == common_chars >= max_similar

\* `if common_chars > max_similar`
Improves(common_chars, max_similar) == common_chars > max_similar

\* the loop over enumerate(result_titles), from index i on
RECURSIVE ClosestFrom(_, _, _, _, _)
ClosestFrom(title, result_titles, i, max_similar, best_index) ==
    IF i >= Len(result_titles) THEN best_index
    ELSE LET common_chars == CommonChars(title, result_titles[i + 1])
         IN IF Improves(common_chars, max_similar)
            THEN ClosestFrom(title, result_titles, i + 1, common_chars, i)
            ELSE ClosestFrom(title, result_titles, i + 1, max_similar, best_index)

find_closest_title(title, result_titles) ==
    ClosestFrom(title, result_titles, 0, 0, 0)

MatchArgs ==
    [ title : Titles(MaxTitleLen),
      titles : UNION { [1..k -> Titles(MaxTitleLen)] : k \in 0..MaxCandidates } ]

\* find_closest_title is called and returns
MatchCall ==
    /\ Len(arg) = 1 /\ ret = <<>>
    /\ ret' = <<find_closest_title(arg[1].title, arg[1].titles)>>
    /\ UNCHANGED <<poolVars, worldVars, taskVars, collectVars, arg>>

InitMatch ==
    /\ PoolFresh /\ TasksIdle /\ CollectOff
    /\ \E a \in MatchArgs : arg = <<a>>
    /\ ret = <<>>

SpecMatch == InitMatch /\ [][MatchCall]_vars

\* C11: find_closest_title returns the lowest (0-based) index among the
\* candidates with the greatest score, the score of a candidate being the
\* number of positions of the query whose character occurs in it; it
\* returns 0 for a single candidate and for no candidate.
C11_LowestIndexOfBestScore ==
    ret # <<>> =>
      LET q   == arg[1].title
          ts  == arg[1].titles
          idx == ret[1]
      IN /\ Len(ts) <= 1 => idx = 0
         /\ Len(ts) >= 1 =>
              /\ idx \in 0..(Len(ts) - 1)
              /\ \A j \in 0..(Len(ts) - 1) :
                    CommonChars(q, ts[j + 1]) <= CommonChars(q, ts[idx + 1])
              /\ \A j \in 0..(idx - 1) :
                    CommonChars(q, ts[j + 1]) < CommonChars(q, ts[idx + 1])

\* C11 witness: two candidates tie on a score of 2, counted by position for
\* a query that repeats its letter, and the first one is returned
C11_Witness ==
    /\ ret = <<0>>
    /\ arg[1].title = <<"a", "a">>
    /\ arg[1].titles = << <<"a", "b">>, <<"a">> >>

(***************************************************************************)
(* search_cnki, from the page get_page created for it: the anti-detection  *)
(* script, the search itself, the collector, the payload, page.close().    *)
(* Task 1 runs the tool; the pool holds the browser the page belongs to.   *)
(***************************************************************************)
\* What the portal does to one search:
\*   journal  whether a journal was given (_professional_search) or not
\*            (_simple_search)
\*   drive    "raises" when navigating, choosing the field, typing the query
\*            or clicking the submit control raises
\*   sort     "default": no sort control is clicked; "clicked": it is;
\*            "raises": the control is missing, or the wait after the click
\*            times out
SearchEnvs ==
    [ journal : BOOLEAN, drive : {"ok", "raises"},
      sort : {"default", "clicked", "raises"} ]

\* the search up to _collect_results: anything raising before the sort step
\* leaves the function; the sort step has its own try block whose except
\* clause passes
DriveOutcome(e) ==
    IF e.drive = "raises" THEN "raises"
    ELSE IF e.sort = "raises" THEN "results"
    ELSE "results"

\* the except clause of search_cnki
ErrorPayload == [isError |-> TRUE, error |-> "message", papers |-> <<>>]

\* the dict _simple_search and _professional_search return; the keys that
\* echo the arguments are left out, `journal` marks the second one's dict
SearchPayload(e, n, papers) ==
    IF e.journal
    THEN [journal |-> TRUE, total_pages |-> n, total_papers |-> Len(papers),
          papers |-> papers]
    ELSE [total_pages |-> n, total_papers |-> Len(papers), papers |-> papers]

\* `result.get("isError")`
IsError(payload) == "isError" \in DOMAIN payload /\ payload.isError

\* the try block of search_cnki up to the call of _collect_results
SearchDrive ==
    /\ pc[1] = "drive" /\ cstate = "off" /\ ret = <<>>
    /\ IF DriveOutcome(arg[1]) = "raises"
       THEN /\ ret' = <<ErrorPayload>>
            /\ result' = [result EXCEPT ![1] = "error"]
            /\ pc' = [pc EXCEPT ![1] = "pageclose"]
            /\ UNCHANGED collectVars
       ELSE /\ \E p \in ResultPages(MaxRows) :
                 /\ cur' = p
                 /\ shown' = <<p>>
            /\ page_num' = 1
            /\ cstate' = "loop"
            /\ UNCHANGED <<pages, all_papers, ret, result, pc>>
    /\ UNCHANGED <<poolVars, worldVars, op, now, ref, page, url, calls, arg>>

\* _collect_results has returned: the search builds its dict
SearchReturn ==
    /\ pc[1] = "drive" /\ cstate = "returned" /\ ret = <<>>
    /\ ret' = <<SearchPayload(arg[1], pages, all_papers)>>
    /\ result' = [result EXCEPT ![1] = "ok"]
    /\ pc' = [pc EXCEPT ![1] = "pageclose"]
    /\ UNCHANGED <<poolVars, worldVars, op, now, ref, page, url, calls,
                   collectVars, arg>>

InitSearch ==
    /\ browser = 1 /\ playwright = 1 /\ last_used = 0 /\ lock = 0
    /\ bstate = [b \in Browsers |-> IF b = 1 THEN "connected" ELSE "unborn"]
    /\ bengine = [b \in Browsers |-> IF b = 1 THEN 1 ELSE 0]
    /\ estate = [e \in Engines |-> IF e = 1 THEN "running" ELSE "unborn"]
    /\ clock = 0
    /\ op = [t \in Tasks |-> IF t = 1 THEN "search" ELSE "none"]
    /\ pc = [t \in Tasks |-> IF t = 1 THEN "script" ELSE "idle"]
    /\ now = [t \in Tasks |-> 0]
    /\ ref = [t \in Tasks |-> IF t = 1 THEN 1 ELSE 0]
    /\ page = [t \in Tasks |-> IF t = 1 THEN "open" ELSE "none"]
    /\ result = [t \in Tasks |-> "none"]
    /\ url = [t \in Tasks |-> <<>>]
    /\ calls = 1
    /\ pages \in 1..MaxPages
    /\ page_num = 0 /\ all_papers = <<>>
    /\ cur = <<>> /\ shown = <<>> /\ cstate = "off"
    /\ \E e \in SearchEnvs : arg = <<e>>
    /\ ret = <<>>

NextSearch ==
    \/ AddInitScriptDone(1)
    \/ SearchDrive
    \/ CollectPage
    \/ SearchReturn
    \/ PageCloseDone(1)

SpecSearch == InitSearch /\ [][NextSearch]_vars

\* the wait for the rows of the first results page timed out
TableNeverAppears ==
    /\ Len(shown) >= 1
    /\ shown[1].q # "raises"
    /\ shown[1].rows = <<>>

\* C12: a search during which the results table never appears within its
\* wait returns the error payload, with isError true and no records, never a
\* success payload, and its page is closed when the call ends.
C12_NoTableIsError ==
    /\ (ret # <<>> /\ TableNeverAppears)
          => (IsError(ret[1]) /\ ret[1].papers = <<>>)
    /\ (pc[1] \in {"done", "raised"} /\ TableNeverAppears) => page[1] = "closed"

(***************************************************************************)
(* Further claims about the pool                                           *)
(***************************************************************************)
\* C13: when get_page finds a Session that it does not reuse, because the
\* browser reports itself not connected or the query raises, it does what it
\* does for an expired one: it invokes close on that browser before creating
\* another; and the browser a page is granted from is either one launched
\* by this very call or the pool's own, connected one.
C13_DeadSessionTornDown ==
    [][\A t \in Tasks :
         /\ (/\ pc[t] = "acquire" /\ pc'[t] # "acquire"
             /\ browser # 0 /\ pc'[t] # "newpage")
            => (pc'[t] = "closing" /\ browser' = browser /\ lock' = t)
         /\ Granted(t)
            => \/ bstate[ref'[t]] = "unborn"
               \/ ref'[t] = browser /\ bstate[browser] = "connected"
      ]_vars

(***************************************************************************)
(* find_best_match: the payload built from what the result links answer    *)
(***************************************************************************)
MaxLinks == 2

\* A result link: its inner_text() and its href attribute (NoneValue if it
\* has none), either of which may raise
LinkTexts == {<<"a">>, <<"a", "b", " ">>, <<" ">>, Raises}
Links == [text : LinkTexts, href : HrefValues]

\* What the portal does to one find_best_match:
\*   drive  "raises" when navigating, typing or the submit click raises
\*   wait   "timeout" when no a.fz14 appears within the wait
\*   links  what query_selector_all('#gridTable a.fz14') returns
MatchEnvs ==
    [ query : {<<"a">>, <<"a", "b">>},
      drive : {"ok", "raises"},
      wait : {"ok", "timeout"},
      links : UNION { [1..k -> Links] : k \in 0..MaxLinks } ]

\* the inner try block: the (title, url) pairs appended before the loop ends
\* or a lookup raises; the except clause keeps what was appended
RECURSIVE LinkPairs(_)
LinkPairs(links) ==
    IF links = <<>> THEN <<>>
    ELSE LET l == Head(links)
         IN IF l.text = Raises \/ l.href = Raises THEN <<>>
            ELSE IF Strip(l.text) # <<>>
            THEN <<[title |-> Strip(l.text),
                    url |-> IF l.href = NoneValue THEN <<>> ELSE l.href]>>
                 \o LinkPairs(Tail(links))
            ELSE LinkPairs(Tail(links))

Candidates(e) == IF e.wait = "timeout" THEN <<>> ELSE LinkPairs(e.links)

\* the try block of find_best_match and its except clause
FindBestMatch(e) ==
    IF e.drive = "raises" THEN [isError |-> TRUE, error |-> "message"]
    ELSE LET found  == Candidates(e)
             titles == [i \in 1..Len(found) |-> found[i].title]
             urls   == [i \in 1..Len(found) |-> found[i].url]
         IN IF titles = <<>>
            THEN [query |-> e.query, best_match |-> NoneValue,
                  message |-> "not found"]
            ELSE LET idx == find_closest_title(e.query, titles)
                 IN [query |-> e.query,
                     best_match |-> [title |-> titles[idx + 1], url |-> urls[idx + 1]],
                     total_results |-> Len(titles)]

\* find_best_match builds its payload
BestMatchCall ==
    /\ Len(arg) = 1 /\ ret = <<>>
    /\ ret' = <<FindBestMatch(arg[1])>>
    /\ UNCHANGED <<poolVars, worldVars, taskVars, collectVars, arg>>

InitBestMatch ==
    /\ PoolFresh /\ TasksIdle /\ CollectOff
    /\ \E e \in MatchEnvs : arg = <<e>>
    /\ ret = <<>>

SpecBestMatch == InitBestMatch /\ [][BestMatchCall]_vars

\* C14: when the search itself does not fail, find_best_match with no
\* candidate (the wait for the links timing out included) returns a payload
\* without isError whose best_match is none and whose candidate count is 0;
\* with candidates, best_match is the title and url at the index
\* find_closest_title chooses and the count is the number of candidates.
C14_BestMatchPayload ==
    (ret # <<>> /\ arg[1].drive = "ok") =>
      LET found == Candidates(arg[1])
          p     == ret[1]
      IN /\ ~IsError(p)
         /\ "total_results" \in DOMAIN p
         /\ p.total_results = Len(found)
         /\ IF found = <<>>
            THEN p.best_match = NoneValue
            ELSE LET idx == find_closest_title(arg[1].query,
                                [i \in 1..Len(found) |-> found[i].title])
                 IN /\ p.best_match.title = found[idx + 1].title
                    /\ p.best_match.url = found[idx + 1].url

(***************************************************************************)
(* Claims about a search                                                   *)
(***************************************************************************)
\* C15: a failure of the anti-detection script on the new page, or of the
\* sort control, is absorbed: after add_init_script the tool goes on to
\* drive its page whatever the script did, and a search in which nothing but
\* the sort step failed returns a payload without isError.
C15_RecoverableFaultsAbsorbed ==
    [][/\ (pc[1] = "script" /\ pc'[1] # "script") => pc'[1] = "drive"
       /\ (ret = <<>> /\ ret' # <<>> /\ arg[1].drive = "ok") => ~IsError(ret'[1])
      ]_vars

\* every collected page handed over its rows
PagesRead == \A k \in 1..Len(shown) : shown[k].q # "raises"

\* C16: the payload of a successful search whose pages could all be read
\* counts every row rendered on them: total_papers is the length of papers,
\* which is the number of rows the rendered pages showed, whatever the rows
\* lack, and the records of each page carry that page's number.
C16_EveryRowCollected ==
    (ret # <<>> /\ ~IsError(ret[1]) /\ PagesRead) =>
      /\ ret[1].total_papers = Len(ret[1].papers)
      /\ Len(ret[1].papers) = RowsShown(shown)
      /\ \A k \in 1..Len(shown) :
            Cardinality({j \in 1..Len(ret[1].papers) : ret[1].papers[j].page = k})
              = Len(shown[k].rows)

\* the tasks inside _create_browser
Creating == {t \in Tasks : pc[t] \in {"startpw", "launch"}}

\* the tasks that called get_page and have not entered its locked region
Waiting == {t \in Tasks : pc[t] = "acquire"}

\* C17: the engine start and the browser launch run outside the locked
\* region of get_page: at most one task is creating the browser, and a
\* caller that arrives meanwhile finds the lock free, so it never waits on
\* the lock for the length of a launch.
C17_CreationOutsideLock ==
    /\ Cardinality(Creating) <= 1
    /\ (Creating # {} /\ Waiting # {}) => lock = 0

(***************************************************************************)
(* The locked region of get_page alone: each caller is followed until it   *)
(* has left the region, with the browser its page will come from or with   *)
(* the exception of a failed creation, after which it may call again.      *)
(* The scheduling is what the run time guarantees: asyncio.Lock wakes its  *)
(* waiters in turn, so a caller waiting on a lock that is free again and   *)
(* again gets it; and browser.close(), the engine start and the launch     *)
(* each return or raise.                                                   *)
(***************************************************************************)
CallSearch(t) == Enter(t, "search", <<>>)

NextCreate ==
    \/ \E t \in Tasks : CallSearch(t)
    \/ \E t \in Tasks : GetPageLock(t)
    \/ \E t \in Tasks : CloseInternalDone(t)
    \/ \E t \in Tasks : StartDone(t)
    \/ \E t \in Tasks : LaunchDone(t)
    \/ \E t \in Tasks : Return(t)
    \/ Tick
    \/ Crash

FairCreate ==
    \A t \in Tasks :
        /\ SF_vars(GetPageLock(t))
        /\ WF_vars(CloseInternalDone(t))
        /\ WF_vars(StartDone(t))
        /\ WF_vars(LaunchDone(t))

SpecCreate == Init /\ [][NextCreate]_vars /\ FairCreate

\* task t leaves _create_browser with an exception
CreationFails(t) == pc[t] \in {"startpw", "launch"} /\ pc'[t] = "raised"

\* C18: a creation that fails inside get_page leaves the pool without a
\* Session and the lock free; a caller that enters the region of a pool
\* without a Session attempts a creation of its own; and every caller
\* waiting for the region eventually enters it.
C18_FailedCreationBlocksNobody ==
    /\ [][\A t \in Tasks :
            /\ CreationFails(t) => (browser' = 0 /\ lock' = 0)
            /\ (pc[t] = "acquire" /\ pc'[t] # "acquire" /\ browser = 0)
               => (pc'[t] \in {"startpw", "launch"} /\ lock' = t)
         ]_vars
    /\ \A t \in Tasks : (pc[t] = "acquire") ~> (pc[t] # "acquire")

\* C18 witness: a creation has failed while another caller was waiting, and
\* that caller has entered the region and is launching
C18_Witness ==
    \E t, u \in Tasks :
        /\ pc[t] = "raised" /\ ref[t] = 0 /\ page[t] = "none"
        /\ pc[u] = "launch" /\ lock = u
        /\ calls = 2

\* the tasks working on an open page of browser b
InFlight(b) ==
    {u \in Tasks : pc[u] \in {"script", "drive", "pageclose"}
                   /\ page[u] = "open" /\ ref[u] = b}

\* C19: get_page neither closes the pool's browser (as idle for too long)
\* nor drops it for another (as not alive) while a task is still working on
\* a page of it.
C19_NoTeardownUnderLease ==
    [][\A t \in Tasks :
         /\ (pc[t] = "closing" /\ pc'[t] # "closing") => InFlight(browser) = {}
         /\ (pc[t] = "acquire" /\ browser # 0 /\ browser' = 0)
            => InFlight(browser) = {}
      ]_vars

\* C20: once every call of get_page and of close() has returned, a pool
\* that holds a browser also holds the engine that launched it, and that
\* engine is running.
C20_SessionHasItsEngine ==
    (\A t \in Tasks : pc[t] = "idle") =>
      (browser # 0 =>
         /\ playwright # 0
         /\ playwright = bengine[browser]
         /\ estate[playwright] = "running")

(***************************************************************************)
(* _professional_search: the expression it submits and the field it        *)
(* reports.  The expression is kept as the pieces the f-string joins.      *)
(***************************************************************************)
PROFESSIONAL_SEARCH_FIELDS ==
    { << <<"zhuti">>, "SU" >>,
      << <<"guanjianci">>, "KY" >>,
      << <<"pianming">>, "TI" >>,
      << <<"quanwen">>, "FT" >>,
      << <<"zuozhe">>, "AU" >>,
      << <<"diyizuozhe">>, "FI" >>,
      << <<"tongxunzuozhe">>, "RP" >>,
      << <<"zuozhedanwei">>, "AF" >>,
      << <<"zhaiyao">>, "AB" >>,
      << Doi, "DOI" >> }

\* `PROFESSIONAL_SEARCH_FIELDS.get(resolved_type, "SU")`
FieldCode(resolved_type) ==
    IF resolved_type \in Keys(PROFESSIONAL_SEARCH_FIELDS)
    THEN Get(PROFESSIONAL_SEARCH_FIELDS, resolved_type)
    ELSE "SU"

\* `f"({field_code}='{query}') AND (JN='{journal}')"`
Expression(field_code, query, journal) ==
    <<"(", field_code, "='", query, "') AND (JN='", journal, "')">>

\* what _professional_search submits and what its dict says of it
ProfessionalSearch(search_type, query, journal) ==
    LET resolved_type == resolve_search_type(search_type)
        field_code    == FieldCode(resolved_type)
        expr          == Expression(field_code, query, journal)
    IN [ query |-> query, search_type |-> resolved_type, journal |-> journal,
         expression |-> expr, submitted |-> expr ]

ProfessionalArgs ==
    [ search_type : Spellings(Keys(SEARCH_TYPE_ALIASES) \cup Keys(SEARCH_TYPES)),
      query : {<<"a">>, <<"a", " ", "b">>},
      journal : {<<"j">>} ]

\* _professional_search is called with a journal and builds its expression
ProfessionalCall ==
    /\ Len(arg) = 1 /\ ret = <<>>
    /\ ret' = <<ProfessionalSearch(arg[1].search_type, arg[1].query, arg[1].journal)>>
    /\ UNCHANGED <<poolVars, worldVars, taskVars, collectVars, arg>>

InitProfessional ==
    /\ PoolFresh /\ TasksIdle /\ CollectOff
    /\ \E a \in ProfessionalArgs : arg = <<a>>
    /\ ret = <<>>

SpecProfessional == InitProfessional /\ [][ProfessionalCall]_vars

\* C21: for every field name asked for, the expression a search with a
\* journal submits is (FIELD='query') AND (JN='journal') with FIELD the
\* code SEARCH_TYPES gives for the field the result reports as search_type.
C21_ExpressionFieldIsReported ==
    ret # <<>> =>
      /\ ret[1].search_type \in Keys(SEARCH_TYPES)
      /\ ret[1].submitted =
            Expression(Get(SEARCH_TYPES, ret[1].search_type),
                       arg[1].query, arg[1].journal)
      /\ ret[1].expression = ret[1].submitted

====
